---- MODULE Spec2Model ----
(***************************************************************************)
(* State-machine model of the grid token game (src/unnamed/part_000, the   *)
(* version with movement controllers and localStorage persistence).        *)
(*                                                                         *)
(* One action per DOM/browser event handler.  Every handler runs to        *)
(* completion (single-threaded event loop), so an action covers the whole  *)
(* handler including the redrawGrid / autoSave calls it ends with.         *)
(***************************************************************************)
EXTENDS Integers, FiniteSets, Sequences, TLC

VARIABLES
  phase,          \* "boot" before the module's top-level startup code ran, "run" after
  playerPos,      \* const playerPos = { i, j }
  heldToken,      \* let heldToken: number | null   (a JS value, see JNum .. JNaN)
  cellContents,   \* Map<string, number>: function from keys to JS values
  visitedCells,   \* Set<string>
  storage,        \* localStorage slot STORAGE_KEY
  ctrl,           \* currentMovementController (the instance it refers to)
  retired,        \* states of the controller instances no longer referenced
  listeners,      \* number of controller instances whose click listeners sit on btn-n/s/w/e
  watches,        \* ids of the geolocation watches registered with the browser
  geoSupported,   \* navigator.geolocation is available
  loads,          \* how often btn-load was pressed (bounds the model)
  lastEvent       \* observation: what the last handler did (alerts, saveState calls)

vars == <<phase, playerPos, heldToken, cellContents, visitedCells, storage,
          ctrl, retired, listeners, watches, geoSupported, loads, lastEvent>>

game == <<playerPos, heldToken, cellContents, visitedCells>>

-----------------------------------------------------------------------------
(* Program constants *)

GRID_SIZE == 5

\* "if (distI > 3 || distJ > 3)"
REACH == 3

\* "if (newValue === 256)"
WIN_VALUE == 256

\* "spawnRoll < 0.5", in percent
SPAWN_PCT == 50

\* "valueRoll < 0.7", in percent
VALUE_PCT == 70

\* TILE_DEGREES = 1e-4, in units of 1e-5 degree (the unit of the modelled samples)
TILE_UNITS == 10

-----------------------------------------------------------------------------
(* Bounds of the model *)

\* the player walks the two half-axes 0 <= i <= MaxDist (j = 0) and 0 <= j <= MaxDist (i = 0)
MaxDist == 1

\* btn-load is pressed at most MaxLoads times
MaxLoads == 1

-----------------------------------------------------------------------------
(* JavaScript values that heldToken and a cell can hold.  loadState assigns *)
(* gameState.heldToken unchecked, so heldToken is not always number | null. *)

JNum(n) == [t |-> "num", v |-> n]
JNull == [t |-> "null", v |-> 0]
JUndef == [t |-> "undef", v |-> 0]
JStr == [t |-> "str", v |-> 0]
JNaN == [t |-> "nan", v |-> 0]

IsNum(x) == x.t = "num"

\* a === b
StrictEq(a, b) == a = b /\ a.t # "nan"

\* mutant: the merge adds one instead of doubling
Times2_PlusOne(h) == IF IsNum(h) THEN JNum(h.v + 1) ELSE JNaN

\* heldToken * 2
Times2(h) == IF IsNum(h) THEN JNum(2 * h.v) ELSE JNaN

Abs(n) == IF n < 0 THEN -n ELSE n

\* const key = `${i},${j}`: decimal formatting of two integers is injective,
\* the pair stands for the string
Key(i, j) == <<i, j>>

EmptyCells == [k \in {} |-> JUndef]

-----------------------------------------------------------------------------
(* luck(): the seeded hash of ./_luck.ts, a pure function of its string     *)
(* argument into [0,1).  Modelled as a fixed arithmetic hash, in percent.   *)

luck(key, salt) ==
  ((key[1] + 40) * 37 + (key[2] + 40) * 61 + (key[1] + 40) * (key[2] + 40) * 13
     + salt * 47) % 100

\* spawnRoll < 0.5
Spawns(key) == luck(key, 0) < SPAWN_PCT

\* mutant: the larger spawn value is 3
SpawnValue_OneOrThree(key) == IF luck(key, 1) < VALUE_PCT THEN 1 ELSE 3

\* valueRoll < 0.7 ? 1 : 2, with valueRoll = luck(key + "value")
SpawnValue(key) == IF luck(key, 1) < VALUE_PCT THEN 1 ELSE 2

-----------------------------------------------------------------------------
(* redrawGrid *)

\* mutant: the loops end one cell early ("<" for "<=")
Viewport_ExclusiveEnd(pos) ==
  {Key(i, j) : i \in (pos.i - GRID_SIZE)..(pos.i + GRID_SIZE - 1),
               j \in (pos.j - GRID_SIZE)..(pos.j + GRID_SIZE - 1)}

\* the keys of the two loops of redrawGrid
Viewport(pos) ==
  {Key(i, j) : i \in (pos.i - GRID_SIZE)..(pos.i + GRID_SIZE),
               j \in (pos.j - GRID_SIZE)..(pos.j + GRID_SIZE)}

\* mutant: every drawn cell is rolled again (no visited check)
Unvisited_Reroll(pos, vis) == Viewport(pos)

\* the keys redrawGrid passes through "if (!visitedCells.has(key))"
Unvisited(pos, vis) == Viewport(pos) \ vis

\* mutant: luck is asked with the cell's offset from the player, not its key
redrawGrid_RelativeKey(pos, cc, vis) ==
  LET fresh == Unvisited(pos, vis)
      rel(k) == Key(k[1] - pos.i, k[2] - pos.j)
      spawned == {k \in fresh : Spawns(rel(k))}
  IN [cellContents |-> [k \in DOMAIN cc \cup spawned |->
                          IF k \in spawned THEN JNum(SpawnValue(rel(k))) ELSE cc[k]],
      visitedCells |-> vis \cup fresh]

\* mutant: a drawn cell is marked on its first sighting and rolled on a later
\* one, while it is empty
redrawGrid_RollLater(pos, cc, vis) ==
  LET fresh == Unvisited(pos, vis)
      spawned == {k \in (Viewport(pos) \cap vis) \ DOMAIN cc : Spawns(k)}
  IN [cellContents |-> [k \in DOMAIN cc \cup spawned |->
                          IF k \in spawned THEN JNum(SpawnValue(k)) ELSE cc[k]],
      visitedCells |-> vis \cup fresh]

\* the state of cellContents and visitedCells after redrawGrid()
redrawGrid(pos, cc, vis) ==
  LET fresh == Unvisited(pos, vis)
      spawned == {k \in fresh : Spawns(k)}
  IN [cellContents |-> [k \in DOMAIN cc \cup spawned |->
                          IF k \in spawned THEN JNum(SpawnValue(k)) ELSE cc[k]],
      visitedCells |-> vis \cup fresh]

\* cellContents.get(key)
CellGet(cc, key) == IF key \in DOMAIN cc THEN cc[key] ELSE JUndef

-----------------------------------------------------------------------------
(* Persistence: the slot holds nothing, or a text.  A text is modelled by   *)
(* what JSON.parse makes of it.                                            *)

NoPos == [i |-> JUndef, j |-> JUndef]

\* localStorage.getItem returns null
SlotAbsent == [kind |-> "absent", pos |-> NoPos, held |-> JUndef, cells |-> EmptyCells]

\* a text JSON.parse throws on
SlotGarbage == [kind |-> "garbage", pos |-> NoPos, held |-> JUndef, cells |-> EmptyCells]

\* the text "null": parses, and gameState.playerPos throws a TypeError
SlotJsonNull == [kind |-> "jsonnull", pos |-> NoPos, held |-> JUndef, cells |-> EmptyCells]

\* what JSON.stringify writes for a value: NaN becomes null; an undefined
\* property is left out, which reads back as undefined
ToJSON(x) == IF x.t = "nan" THEN JNull ELSE x

\* JSON.stringify(gameState) read back by JSON.parse
Stringify(pos, held, cc) ==
  [kind |-> "object",
   pos |-> [i |-> JNum(pos.i), j |-> JNum(pos.j)],
   held |-> ToJSON(held),
   cells |-> [k \in {x \in DOMAIN cc : cc[x].t # "undef"} |-> ToJSON(cc[k])]]

\* mutant: the slot is emptied before the write, so a failed write loses it
saveState_Clobber(pos, held, cc, slot, ok) ==
  IF ok THEN Stringify(pos, held, cc) ELSE SlotAbsent

\* saveState(): the slot afterwards; ok = localStorage.setItem did not throw
saveState(pos, held, cc, slot, ok) ==
  IF ok THEN Stringify(pos, held, cc) ELSE slot

\* mutant: the check for an empty slot is missing
LoadSkips_Missed(slot) == FALSE

\* loadState() returns early ("No saved game found") or lands in its catch
LoadSkips(slot) == slot.kind = "absent"
LoadThrows(slot) == slot.kind \in {"garbage", "jsonnull"}

\* mutant: visitedCells is cleared and the loaded keys are not added again
loadState_ClearOnly(pos, held, cc, vis, slot) ==
  IF LoadSkips(slot) \/ LoadThrows(slot)
  THEN [playerPos |-> pos, heldToken |-> held, cellContents |-> cc, visitedCells |-> vis]
  ELSE LET newPos == IF IsNum(slot.pos.i) /\ IsNum(slot.pos.j)
                     THEN [i |-> slot.pos.i.v, j |-> slot.pos.j.v]
                     ELSE pos
           numeric == {k \in DOMAIN slot.cells : IsNum(slot.cells[k])}
           newCells == [k \in numeric |-> slot.cells[k]]
           drawn == redrawGrid(newPos, newCells, {})
       IN [playerPos |-> newPos, heldToken |-> slot.held,
           cellContents |-> [k \in DOMAIN drawn.cellContents |->
                               IF k \in numeric THEN newCells[k] ELSE drawn.cellContents[k]],
           visitedCells |-> drawn.visitedCells]

\* loadState(): the game state afterwards
loadState(pos, held, cc, vis, slot) ==
  IF LoadSkips(slot) \/ LoadThrows(slot)
  THEN [playerPos |-> pos, heldToken |-> held, cellContents |-> cc, visitedCells |-> vis]
  ELSE LET newPos == IF IsNum(slot.pos.i) /\ IsNum(slot.pos.j)
                     THEN [i |-> slot.pos.i.v, j |-> slot.pos.j.v]
                     ELSE pos
           numeric == {k \in DOMAIN slot.cells : IsNum(slot.cells[k])}
           newCells == [k \in numeric |-> slot.cells[k]]
           drawn == redrawGrid(newPos, newCells, numeric)
       IN [playerPos |-> newPos, heldToken |-> slot.held,
           cellContents |-> drawn.cellContents, visitedCells |-> drawn.visitedCells]

-----------------------------------------------------------------------------
(* The rect click handler installed by redrawGrid *)

\* mutant: the gate is off by one cell
TooFar_OffByOne(distI, distJ) == distI > REACH + 1 \/ distJ > REACH + 1

\* if (distI > 3 || distJ > 3) { alert("Too far! ..."); return; }
TooFar(distI, distJ) == distI > REACH \/ distJ > REACH

\* mutant: the win check still compares with the earlier goal of 16
WinCheck_OldGoal(newValue) == StrictEq(newValue, JNum(16))

\* if (newValue === 256) alert("Congrats ...")
WinCheck(newValue) == StrictEq(newValue, JNum(WIN_VALUE))

\* mutant: a held token is exchanged with an empty cell too (a drop)
ClickBranch_Drop(key, pos, held, cc) ==
  LET cellValue == CellGet(cc, key)
  IN IF TooFar(Abs(key[1] - pos.i), Abs(key[2] - pos.j)) THEN "toofar"
     ELSE IF StrictEq(held, JNull)
          THEN (IF cellValue # JUndef THEN "pickup" ELSE "noop")
          ELSE IF StrictEq(held, cellValue) THEN "merge" ELSE "swap"

\* the branch the handler takes for the rect of cell key
ClickBranch(key, pos, held, cc) ==
  LET cellValue == CellGet(cc, key)
  IN IF TooFar(Abs(key[1] - pos.i), Abs(key[2] - pos.j)) THEN "toofar"
     ELSE IF StrictEq(held, JNull)
          THEN (IF cellValue # JUndef THEN "pickup" ELSE "noop")
          ELSE IF cellValue # JUndef
               THEN (IF StrictEq(held, cellValue) THEN "merge" ELSE "swap")
               ELSE "noop"

\* cellContents.delete(key)
CellDelete(cc, key) == [k \in DOMAIN cc \ {key} |-> cc[k]]

\* cellContents.set(key, value)
CellSet(cc, key, value) == [k \in DOMAIN cc \cup {key} |-> IF k = key THEN value ELSE cc[k]]

\* mutant: the pick-up empties the whole store (clear() for delete(key))
PickUp_ClearsStore(key, held, cc) ==
  [heldToken |-> CellGet(cc, key), cellContents |-> EmptyCells,
   saved |-> TRUE, win |-> FALSE]

\* mutant: the picked-up token stays in the cell
PickUp_NoDelete(key, held, cc) ==
  [heldToken |-> CellGet(cc, key), cellContents |-> cc, saved |-> TRUE, win |-> FALSE]

\* heldToken = cellValue; cellContents.delete(key); ... autoSave();
PickUp(key, held, cc) ==
  [heldToken |-> CellGet(cc, key), cellContents |-> CellDelete(cc, key),
   saved |-> TRUE, win |-> FALSE]

\* mutant: the merged token stays in the cell
Merge_NoDelete(key, held, cc) ==
  [heldToken |-> Times2(held), cellContents |-> cc,
   saved |-> TRUE, win |-> WinCheck(Times2(held))]

\* mutant: the merge removes the cell's token and heldToken keeps its value
Merge_KeepsHeld(key, held, cc) ==
  [heldToken |-> held, cellContents |-> CellDelete(cc, key),
   saved |-> TRUE, win |-> WinCheck(Times2(held))]

\* newValue = heldToken * 2; heldToken = newValue; cellContents.delete(key); ... autoSave();
Merge(key, held, cc) ==
  [heldToken |-> Times2(held), cellContents |-> CellDelete(cc, key),
   saved |-> TRUE, win |-> WinCheck(Times2(held))]

\* mutant: heldToken is overwritten before it is stored in the cell
Swap_Overwritten(key, held, cc) ==
  [heldToken |-> CellGet(cc, key), cellContents |-> CellSet(cc, key, CellGet(cc, key)),
   saved |-> TRUE, win |-> FALSE]

\* cellContents.set(key, heldToken); heldToken = cellValue; ... autoSave();
Swap(key, held, cc) ==
  [heldToken |-> CellGet(cc, key), cellContents |-> CellSet(cc, key, held),
   saved |-> TRUE, win |-> FALSE]

\* the alert and return, or no branch taken
NoChange(key, held, cc) ==
  [heldToken |-> held, cellContents |-> cc, saved |-> FALSE, win |-> FALSE]

\* heldToken and cellContents after the handler, and what it signalled
rectClick(key, pos, held, cc) ==
  LET branch == ClickBranch(key, pos, held, cc)
      r == CASE branch = "pickup" -> PickUp(key, held, cc)
             [] branch = "merge" -> Merge(key, held, cc)
             [] branch = "swap" -> Swap(key, held, cc)
             [] OTHER -> NoChange(key, held, cc)
  IN [branch |-> branch, heldToken |-> r.heldToken, cellContents |-> r.cellContents,
      saved |-> r.saved, win |-> r.win]

-----------------------------------------------------------------------------
(* Movement controllers *)

NoLast == [set |-> FALSE, i |-> 0, j |-> 0]

\* let currentMovementController: MovementController | null = null
NoCtrl == [kind |-> "none", isActive |-> FALSE, watchId |-> 0, last |-> NoLast]

\* new ButtonMovementController()
NewButton == [kind |-> "button", isActive |-> FALSE, watchId |-> 0, last |-> NoLast]

\* new GeolocationMovementController()
NewGeo == [kind |-> "geo", isActive |-> FALSE, watchId |-> 0, last |-> NoLast]

\* the id navigator.geolocation.watchPosition returns: one not in use
FreshWatch(ws) == CHOOSE n \in 1..(Cardinality(ws) + 1) : n \notin ws

\* the instance a reassignment of currentMovementController lets go of
Retire(m) == IF m.ctrl.kind = "none" THEN m.retired ELSE m.retired \cup {m.ctrl}

\* mutant: the geolocation stop() forgets clearWatch
stop_NoClearWatch(m) ==
  IF ~m.ctrl.isActive THEN m
  ELSE IF m.ctrl.kind = "button"
       THEN [m EXCEPT !.ctrl.isActive = FALSE, !.listeners = 0]
       ELSE [m EXCEPT !.ctrl.isActive = FALSE, !.ctrl.last = NoLast]

\* mutant: the button stop() leaves the click listeners on the buttons
stop_KeepListeners(m) ==
  IF ~m.ctrl.isActive THEN m
  ELSE IF m.ctrl.kind = "button"
       THEN [m EXCEPT !.ctrl.isActive = FALSE]
       ELSE [m EXCEPT !.ctrl.isActive = FALSE,
                      !.ctrl.watchId = 0,
                      !.ctrl.last = NoLast,
                      !.watches = IF m.ctrl.watchId # 0 THEN @ \ {m.ctrl.watchId} ELSE @]

\* currentMovementController.stop(), for either class; m = [ctrl, retired, listeners, watches, notice]
stop(m) ==
  IF ~m.ctrl.isActive THEN m
  ELSE IF m.ctrl.kind = "button"
       \* detachButtonListeners: replacing the buttons by clones drops every listener
       THEN [m EXCEPT !.ctrl.isActive = FALSE, !.listeners = 0]
       ELSE [m EXCEPT !.ctrl.isActive = FALSE,
                      !.ctrl.watchId = 0,
                      !.ctrl.last = NoLast,
                      !.watches = IF m.ctrl.watchId # 0 THEN @ \ {m.ctrl.watchId} ELSE @]

\* if (currentMovementController) currentMovementController.stop()
StopCurrent(m) == IF m.ctrl.kind = "none" THEN m ELSE stop(m)

\* mutant: the current controller is replaced without being stopped
switchToButtonMovement_NoStop(m) ==
  [m EXCEPT !.retired = Retire(m),
            !.ctrl = [NewButton EXCEPT !.isActive = TRUE],
            !.listeners = m.listeners + 1]

\* mutant: start() has no "if (this.isActive) return" and attaches again
ButtonStart_NoGuard(m) ==
  [m EXCEPT !.ctrl.isActive = TRUE, !.listeners = m.listeners + 1]

\* ButtonMovementController.start() of the instance m.ctrl: attachButtonListeners
ButtonStart(m) ==
  IF m.ctrl.isActive THEN m
  ELSE [m EXCEPT !.ctrl.isActive = TRUE, !.listeners = m.listeners + 1]

\* stop the current instance, create a ButtonMovementController and start it
switchToButtonMovement(m) ==
  LET s == StopCurrent(m)
  IN ButtonStart([s EXCEPT !.retired = Retire(s), !.ctrl = NewButton])

\* GeolocationMovementController.start() of the instance m.ctrl
GeoStart(m, supported) ==
  IF m.ctrl.isActive THEN m
  ELSE IF ~supported
       THEN [switchToButtonMovement(m) EXCEPT !.notice = "nogeo"]
       ELSE LET id == FreshWatch(m.watches)
            IN [m EXCEPT !.ctrl.isActive = TRUE,
                         !.ctrl.watchId = id,
                         !.watches = @ \cup {id}]

\* stop the current instance, create a GeolocationMovementController and start it
switchToGeolocationMovement(m, supported) ==
  LET s == StopCurrent(m)
  IN GeoStart([s EXCEPT !.retired = Retire(s), !.ctrl = NewGeo], supported)

\* getMode()
IsButtons(c) == c.kind = "button"

\* latLngToGrid: Math.floor(lat / TILE_DEGREES); samples are in units of 1e-5 degree
latLngToGrid(lat, lng) == [i |-> lat \div TILE_UNITS, j |-> lng \div TILE_UNITS]

\* mutant: every sample is accepted
shouldUpdatePosition_Always(last, newGridPos) == TRUE

\* shouldUpdatePosition
shouldUpdatePosition(last, newGridPos) ==
  IF ~last.set THEN TRUE
  ELSE Abs(newGridPos.i - last.i) >= 1 \/ Abs(newGridPos.j - last.j) >= 1

Movement == [ctrl |-> ctrl, retired |-> retired, listeners |-> listeners,
             watches |-> watches, notice |-> ""]

SetMovement(m) ==
  /\ ctrl' = m.ctrl
  /\ retired' = m.retired
  /\ listeners' = m.listeners
  /\ watches' = m.watches

-----------------------------------------------------------------------------
(* Inputs of the model *)

InBounds(pos) ==
  /\ pos.i \in 0..MaxDist
  /\ pos.j \in 0..MaxDist
  /\ (pos.i = 0 \/ pos.j = 0)

\* the cells whose rect the user clicks (those of them in the drawn viewport)
ClickCells == {<<0, 0>>, <<0, 1>>, <<0, 2>>, <<0, 4>>, <<-4, 0>>}

\* position samples (latitude, longitude) in units of 1e-5 degree
Samples == {<<0, 0>>, <<7, 9>>, <<4, 13>>}

\* ?movement=... of the page URL
UrlParams == {"geolocation", "buttons"}

Dirs == {"N", "S", "W", "E"}

\* a snapshot written by an earlier session, late in a game
LateGameSlot ==
  [kind |-> "object",
   pos |-> [i |-> JNum(0), j |-> JNum(0)],
   held |-> JNum(64),
   cells |-> (<<0, 0>> :> JNum(128)) @@ (<<0, 1>> :> JNum(64)) @@ (<<4, 6>> :> JNum(2))]

\* a record whose playerPos.i is not a number, with a non-numeric cell value
BadPosSlot ==
  [kind |-> "object",
   pos |-> [i |-> JStr, j |-> JNum(1)],
   held |-> JNum(4),
   cells |-> (<<0, 1>> :> JNum(2)) @@ (<<0, 2>> :> JStr)]

\* a record whose heldToken is neither null nor a number
BadHeldSlot ==
  [kind |-> "object",
   pos |-> [i |-> JNum(0), j |-> JNum(1)],
   held |-> JStr,
   cells |-> (<<0, 1>> :> JNum(1))]

\* a JSON text of another shape (a number, "{}"): every field reads as undefined
WrongShapeSlot ==
  [kind |-> "object", pos |-> NoPos, held |-> JUndef, cells |-> EmptyCells]

InitialSlots == {SlotAbsent, SlotGarbage, SlotJsonNull, LateGameSlot,
                 BadPosSlot, BadHeldSlot, WrongShapeSlot}

Event(op, key, branch, saved, alerts) ==
  [op |-> op, key |-> key, branch |-> branch, saved |-> saved, alerts |-> alerts]

-----------------------------------------------------------------------------
(* State after the module's declarations, before its startup code *)

InitWith(slots, geo) ==
  /\ phase = "boot"
  /\ playerPos = [i |-> 0, j |-> 0]
  /\ heldToken = JNull
  /\ cellContents = EmptyCells
  /\ visitedCells = {}
  /\ storage \in slots
  /\ ctrl = NoCtrl
  /\ retired = {}
  /\ listeners = 0
  /\ watches = {}
  /\ geoSupported \in geo
  /\ loads = 0
  /\ lastEvent = Event("init", <<0, 0>>, "", FALSE, {})

\* initializeMovementController(); loadState(); redrawGrid(); updateHud();
Startup(url) ==
  /\ phase = "boot"
  /\ LET m == IF url = "geolocation"
              THEN switchToGeolocationMovement(Movement, geoSupported)
              ELSE switchToButtonMovement(Movement)
         l == loadState(playerPos, heldToken, cellContents, visitedCells, storage)
         d == redrawGrid(l.playerPos, l.cellContents, l.visitedCells)
     IN /\ SetMovement(m)
        /\ playerPos' = l.playerPos
        /\ heldToken' = l.heldToken
        /\ cellContents' = d.cellContents
        /\ visitedCells' = d.visitedCells
        /\ lastEvent' = Event("boot", <<0, 0>>, "", FALSE,
                              (IF m.notice = "" THEN {} ELSE {m.notice})
                                \cup (IF LoadThrows(storage) THEN {"loadfail"} ELSE {}))
  /\ phase' = "run"
  /\ UNCHANGED <<storage, geoSupported, loads>>

-----------------------------------------------------------------------------
(* ButtonMovementController.moveNorth .. moveEast *)

\* playerPos.i++ / i-- / j-- / j++
Step(pos, dir) ==
  CASE dir = "N" -> [pos EXCEPT !.i = @ + 1]
    [] dir = "S" -> [pos EXCEPT !.i = @ - 1]
    [] dir = "W" -> [pos EXCEPT !.j = @ - 1]
    [] dir = "E" -> [pos EXCEPT !.j = @ + 1]

\* updateGameAfterMove / updatePlayerPosition: redrawGrid(); updateHud(); autoSave();
\* g = [playerPos, cellContents, visitedCells, storage]
AfterMove(g, newPos, held, ok) ==
  LET d == redrawGrid(newPos, g.cellContents, g.visitedCells)
  IN [playerPos |-> newPos, cellContents |-> d.cellContents,
      visitedCells |-> d.visitedCells,
      storage |-> saveState(newPos, held, d.cellContents, g.storage, ok)]

\* a click on a direction button runs the listener of every attached instance
RECURSIVE ButtonClick(_, _, _, _, _)
ButtonClick(n, g, dir, held, ok) ==
  IF n = 0 THEN g
  ELSE ButtonClick(n - 1, AfterMove(g, Step(g.playerPos, dir), held, ok), dir, held, ok)

Move(dir, ok) ==
  /\ phase = "run"
  /\ listeners > 0
  /\ LET g == ButtonClick(listeners,
                            [playerPos |-> playerPos, cellContents |-> cellContents,
                             visitedCells |-> visitedCells, storage |-> storage],
                            dir, heldToken, ok)
       IN /\ InBounds(g.playerPos)
          /\ playerPos' = g.playerPos
          /\ cellContents' = g.cellContents
          /\ visitedCells' = g.visitedCells
          /\ storage' = g.storage
          /\ lastEvent' = Event("move", <<0, 0>>, dir, TRUE,
                                IF ok THEN {} ELSE {"savefail"})
  /\ UNCHANGED <<phase, heldToken, ctrl, retired, listeners, watches, geoSupported, loads>>

-----------------------------------------------------------------------------
(* rect.on("click", ...) *)

Click(key, ok) ==
  /\ phase = "run"
  /\ key \in Viewport(playerPos)
  /\ LET r == rectClick(key, playerPos, heldToken, cellContents)
       IN /\ heldToken' = r.heldToken
          /\ cellContents' = r.cellContents
          /\ storage' = IF r.saved
                        THEN saveState(playerPos, r.heldToken, r.cellContents, storage, ok)
                        ELSE storage
          /\ lastEvent' = Event("click", key, r.branch, r.saved,
                                (IF r.branch = "toofar" THEN {"toofar"} ELSE {})
                                  \cup (IF r.saved /\ ~ok THEN {"savefail"} ELSE {})
                                  \cup (IF r.win THEN {"win"} ELSE {}))
  /\ UNCHANGED <<phase, playerPos, visitedCells, ctrl, retired, listeners, watches,
                 geoSupported, loads>>

-----------------------------------------------------------------------------
(* btn-save, btn-load *)

Save(ok) ==
  /\ phase = "run"
  /\ /\ storage' = saveState(playerPos, heldToken, cellContents, storage, ok)
       /\ lastEvent' = Event("save", <<0, 0>>, "", TRUE, IF ok THEN {} ELSE {"savefail"})
  /\ UNCHANGED <<phase, game, ctrl, retired, listeners, watches, geoSupported, loads>>

Load ==
  /\ phase = "run"
  /\ loads < MaxLoads
  /\ loads' = loads + 1
  /\ LET l == loadState(playerPos, heldToken, cellContents, visitedCells, storage)
     IN /\ playerPos' = l.playerPos
        /\ heldToken' = l.heldToken
        /\ cellContents' = l.cellContents
        /\ visitedCells' = l.visitedCells
  /\ lastEvent' = Event("load", <<0, 0>>,
                        IF LoadSkips(storage) THEN "absent"
                        ELSE IF LoadThrows(storage) THEN "throws" ELSE "loaded",
                        FALSE, IF LoadThrows(storage) THEN {"loadfail"} ELSE {})
  /\ UNCHANGED <<phase, storage, ctrl, retired, listeners, watches, geoSupported>>

-----------------------------------------------------------------------------
(* btn-mode-toggle, and the callbacks of a geolocation watch *)

ToggleMode ==
  /\ phase = "run"
  /\ LET m == IF IsButtons(ctrl)
              THEN switchToGeolocationMovement(Movement, geoSupported)
              ELSE switchToButtonMovement(Movement)
     IN /\ SetMovement(m)
        /\ lastEvent' = Event("toggle", <<0, 0>>, "", FALSE,
                              IF m.notice = "" THEN {} ELSE {m.notice})
  /\ UNCHANGED <<phase, game, storage, geoSupported, loads>>

\* the instance whose start() registered watch w
Owners(w) == {c \in retired \cup {ctrl} : c.kind = "geo" /\ c.watchId = w}

\* handlePositionUpdate of the instance owning watch w
PositionUpdate(w, sample, ok) ==
  /\ phase = "run"
  /\ w \in watches
  /\ \E owner \in Owners(w) :
       LET gridPos == latLngToGrid(sample[1], sample[2])
           accepted == shouldUpdatePosition(owner.last, gridPos)
           updated == [owner EXCEPT !.last = [set |-> TRUE, i |-> gridPos.i, j |-> gridPos.j]]
           g == AfterMove([playerPos |-> playerPos, cellContents |-> cellContents,
                           visitedCells |-> visitedCells, storage |-> storage],
                          gridPos, heldToken, ok)
       IN /\ InBounds(gridPos)
          /\ IF accepted
             THEN /\ playerPos' = g.playerPos
                  /\ cellContents' = g.cellContents
                  /\ visitedCells' = g.visitedCells
                  /\ storage' = g.storage
                  /\ ctrl' = IF owner = ctrl THEN updated ELSE ctrl
                  /\ retired' = IF owner = ctrl THEN retired
                                ELSE (retired \ {owner}) \cup {updated}
                  /\ lastEvent' = Event("gps", <<gridPos.i, gridPos.j>>, "accepted", TRUE,
                                        IF ok THEN {} ELSE {"savefail"})
             ELSE /\ UNCHANGED <<playerPos, cellContents, visitedCells, storage, ctrl, retired>>
                  /\ lastEvent' = Event("gps", <<gridPos.i, gridPos.j>>, "dropped", FALSE, {})
  /\ UNCHANGED <<phase, heldToken, listeners, watches, geoSupported, loads>>

\* mutant: the error is reported and the geolocation controller stays current
PositionError_AlertOnly(w) ==
  /\ phase = "run"
  /\ w \in watches
  /\ lastEvent' = Event("gpserror", <<0, 0>>, "", FALSE, {"geoerr"})
  /\ UNCHANGED <<phase, game, storage, ctrl, retired, listeners, watches, geoSupported, loads>>

\* handlePositionError: alert(errorMessage); switchToButtonMovement();
PositionError(w) ==
  /\ phase = "run"
  /\ w \in watches
  /\ SetMovement(switchToButtonMovement(Movement))
  /\ lastEvent' = Event("gpserror", <<0, 0>>, "", FALSE, {"geoerr"})
  /\ UNCHANGED <<phase, game, storage, geoSupported, loads>>

-----------------------------------------------------------------------------

(* A session played with the direction buttons, started on any slot content *)

Init == InitWith(InitialSlots, {TRUE})

Next ==
  \/ Startup("buttons")
  \/ \E dir \in Dirs : Move(dir, TRUE)
  \/ \E key \in ClickCells : Click(key, TRUE)
  \/ Save(TRUE)

Spec == Init /\ [][Next]_vars

-----------------------------------------------------------------------------
(* The same session with btn-load; the user clicks two of the cells *)

LoadClickCells == {<<0, 0>>, <<0, 2>>}

NextLoad ==
  \/ Startup("buttons")
  \/ \E dir \in Dirs : Move(dir, TRUE)
  \/ \E key \in LoadClickCells : Click(key, TRUE)
  \/ Save(TRUE)
  \/ Load

SpecLoad == Init /\ [][NextLoad]_vars

-----------------------------------------------------------------------------
(* A session on an empty slot with both movement sources: the page is       *)
(* opened with either URL parameter, with or without navigator.geolocation, *)
(* and the user toggles the mode and clicks cells while samples and errors  *)
(* arrive                                                                  *)

InitMove == InitWith({SlotAbsent}, BOOLEAN)

NextMove ==
  \/ \E url \in UrlParams : Startup(url)
  \/ \E dir \in Dirs : Move(dir, TRUE)
  \/ \E key \in LoadClickCells : Click(key, TRUE)
  \/ ToggleMode
  \/ \E w \in watches, sample \in Samples : PositionUpdate(w, sample, TRUE)
  \/ \E w \in watches : PositionError(w)

SpecMove == InitMove /\ [][NextMove]_vars

-----------------------------------------------------------------------------
(* A session in which localStorage.setItem may throw (quota exceeded) at    *)
(* any write, started on an empty slot                                      *)

InitQuota == InitWith({SlotAbsent}, {TRUE})

NextQuota ==
  \/ Startup("buttons")
  \/ \E dir \in Dirs, ok \in BOOLEAN : Move(dir, ok)
  \/ \E key \in LoadClickCells, ok \in BOOLEAN : Click(key, ok)
  \/ \E ok \in BOOLEAN : Save(ok)
  \/ ToggleMode

SpecQuota == InitQuota /\ [][NextQuota]_vars

-----------------------------------------------------------------------------
(* A fresh game (empty slot) played with every command: both URL            *)
(* parameters, buttons, samples and errors, mode toggles, clicks, btn-save  *)
(* and btn-load of the snapshots the session wrote itself                  *)

InitFresh == InitWith({SlotAbsent}, {TRUE})

NextFresh ==
  \/ \E url \in UrlParams : Startup(url)
  \/ \E dir \in Dirs : Move(dir, TRUE)
  \/ \E key \in LoadClickCells : Click(key, TRUE)
  \/ Save(TRUE)
  \/ Load
  \/ ToggleMode
  \/ \E w \in watches, sample \in Samples : PositionUpdate(w, sample, TRUE)
  \/ \E w \in watches : PositionError(w)

SpecFresh == InitFresh /\ [][NextFresh]_vars

-----------------------------------------------------------------------------
(* Every event handler the page registers, and its startup code, on any     *)
(* input                                                                   *)

Handlers ==
  \/ \E url \in UrlParams : Startup(url)
  \/ \E dir \in Dirs, ok \in BOOLEAN : Move(dir, ok)
  \/ \E key \in Viewport(playerPos), ok \in BOOLEAN : Click(key, ok)
  \/ \E ok \in BOOLEAN : Save(ok)
  \/ Load
  \/ ToggleMode
  \/ \E w \in watches, sample \in Samples, ok \in BOOLEAN : PositionUpdate(w, sample, ok)
  \/ \E w \in watches : PositionError(w)

-----------------------------------------------------------------------------
(* Properties of the rect click handler.  A step is the handler of a click  *)
(* on the rect of cell key exactly when Click(key, TRUE) holds of it; the   *)
(* conditions on the state before the click are read unprimed.             *)

\* the click target is within 3 cells of the player on both axes
WithinThree(key) == Abs(key[1] - playerPos.i) <= 3 /\ Abs(key[2] - playerPos.j) <= 3

\* C1: a click on a cell more than 3 away from the player on the i axis or on the
\* j axis changes none of heldToken, cellContents, visitedCells, playerPos, and
\* the handler does not call saveState (the slot keeps its content).
C1_ReachabilityGate ==
  [][\A key \in ClickCells :
       (Click(key, TRUE) /\ ~WithinThree(key))
         => /\ UNCHANGED <<heldToken, cellContents, visitedCells, playerPos>>
            /\ storage' = storage
            /\ ~lastEvent'.saved]_vars

\* C1 witness: the last handler refused a click on a cell that holds a token and
\* lies more than 3 cells from the player
C1_Witness ==
  /\ lastEvent.op = "click"
  /\ "toofar" \in lastEvent.alerts
  /\ ~WithinThree(lastEvent.key)
  /\ CellGet(cellContents, lastEvent.key) # JUndef

\* C2: a click within reach with a number h held on a cell holding the same
\* number leaves heldToken = 2h and the cell absent from cellContents.
C2_MergeDoubles ==
  [][\A key \in ClickCells :
       (/\ Click(key, TRUE)
        /\ WithinThree(key)
        /\ IsNum(heldToken)
        /\ CellGet(cellContents, key) = heldToken)
         => /\ heldToken' = JNum(2 * heldToken.v)
            /\ key \notin DOMAIN cellContents']_vars

\* C2 witness: the last handler merged; the player now holds the doubled token
\* and the clicked cell is empty
C2_Witness ==
  /\ lastEvent.op = "click"
  /\ lastEvent.branch = "merge"
  /\ IsNum(heldToken) /\ heldToken.v >= 2
  /\ lastEvent.key \notin DOMAIN cellContents

\* C3: a click within reach with a token h held (heldToken not null) on a cell
\* holding a different token v leaves h in the cell and v in heldToken.
C3_SwapExchanges ==
  [][\A key \in ClickCells :
       (/\ Click(key, TRUE)
        /\ WithinThree(key)
        /\ heldToken # JNull
        /\ CellGet(cellContents, key) # JUndef
        /\ CellGet(cellContents, key) # heldToken)
         => /\ CellGet(cellContents', key) = heldToken
            /\ heldToken' = CellGet(cellContents, key)]_vars

\* C3 witness: the last handler swapped two different numbers
C3_Witness ==
  /\ lastEvent.op = "click"
  /\ lastEvent.branch = "swap"
  /\ IsNum(heldToken)
  /\ IsNum(CellGet(cellContents, lastEvent.key))
  /\ CellGet(cellContents, lastEvent.key) # heldToken

\* C4: a click within reach with nothing held (heldToken null) on a cell holding
\* v leaves heldToken = v and the cell absent from cellContents.
C4_PickUp ==
  [][\A key \in ClickCells :
       (/\ Click(key, TRUE)
        /\ WithinThree(key)
        /\ heldToken = JNull
        /\ CellGet(cellContents, key) # JUndef)
         => /\ heldToken' = CellGet(cellContents, key)
            /\ key \notin DOMAIN cellContents']_vars

\* C4 witness (scenario A): on a fresh game, at the origin, the last handler
\* picked up the 1 spawned in cell (0,1)
C4_Witness ==
  /\ lastEvent.op = "click"
  /\ lastEvent.branch = "pickup"
  /\ lastEvent.key = <<0, 1>>
  /\ playerPos = [i |-> 0, j |-> 0]
  /\ heldToken = JNum(1)
  /\ <<0, 1>> \notin DOMAIN cellContents

\* C5: a click on a cell that holds no token, with or without a token held,
\* changes neither heldToken nor cellContents, and the handler does not call
\* saveState (the slot keeps its content).
C5_NoOp ==
  [][\A key \in ClickCells :
       (Click(key, TRUE) /\ CellGet(cellContents, key) = JUndef)
         => /\ UNCHANGED <<heldToken, cellContents>>
            /\ storage' = storage
            /\ ~lastEvent'.saved]_vars

\* C5 witness: the last handler was a click within reach on an empty cell while
\* a token was held
C5_Witness ==
  /\ lastEvent.op = "click"
  /\ WithinThree(lastEvent.key)
  /\ lastEvent.key \notin DOMAIN cellContents
  /\ IsNum(heldToken)
  /\ ~lastEvent.saved

\* C6: the WIN alert is raised by a handler exactly when that handler is a merge
\* whose result equals the win threshold (256): no other merge, and no pick-up,
\* swap, no-op, refused click, move, save or startup load raises it.  In a chain
\* of merges that doubles heldToken up to 256 it is therefore raised once, at
\* the last merge.
C6_WinSignal ==
  [][("win" \in lastEvent'.alerts)
       <=> (\E key \in ClickCells :
              /\ Click(key, TRUE)
              /\ WithinThree(key)
              /\ IsNum(heldToken)
              /\ CellGet(cellContents, key) = heldToken
              /\ 2 * heldToken.v = WIN_VALUE)]_vars

\* C6 witness: the last handler merged 128 with 128 and raised the alert
C6_Witness ==
  /\ lastEvent.op = "click"
  /\ lastEvent.branch = "merge"
  /\ "win" \in lastEvent.alerts
  /\ heldToken = JNum(WIN_VALUE)

-----------------------------------------------------------------------------
(* Properties of redrawGrid *)

\* C7: the redrawGrid of a move never changes the cellContents entry of a
\* coordinate that was in visitedCells before the move: an absent entry stays
\* absent (a cell the player emptied is not spawned again), a present entry
\* keeps its value.
C7_AntiFarming ==
  [][\A dir \in Dirs :
       Move(dir, TRUE)
         => \A k \in visitedCells :
              /\ (k \in DOMAIN cellContents') = (k \in DOMAIN cellContents)
              /\ CellGet(cellContents', k) = CellGet(cellContents, k)]_vars

\* C7 witness: the player emptied cell (0,0), where the spawn roll gives a
\* token, and has just moved back to (0,0): the cell is still empty
C7_Witness ==
  /\ lastEvent.op = "move"
  /\ playerPos = [i |-> 0, j |-> 0]
  /\ <<0, 0>> \in visitedCells
  /\ Spawns(<<0, 0>>)
  /\ <<0, 0>> \notin DOMAIN cellContents

-----------------------------------------------------------------------------
(* Properties of saveState / loadState *)

Origin == [i |-> 0, j |-> 0]

\* the record has the shape of SavedGameState: numeric playerPos.i and .j, a
\* heldToken that is null or a number, numeric cell values
WellFormed(slot) ==
  /\ slot.kind = "object"
  /\ IsNum(slot.pos.i) /\ IsNum(slot.pos.j)
  /\ (slot.held = JNull \/ IsNum(slot.held))
  /\ \A k \in DOMAIN slot.cells : IsNum(slot.cells[k])

\* the slot holds a text that is not a well-formed record
Malformed(slot) == slot.kind # "absent" /\ ~WellFormed(slot)

\* C8: btn-save immediately followed by btn-load leaves playerPos, heldToken and
\* cellContents as they were before the save; in particular no visited empty
\* cell gains a token at load time.
C8_SaveLoadRoundTrip ==
  [][(lastEvent.op = "save" /\ Load)
       => /\ playerPos' = playerPos
          /\ heldToken' = heldToken
          /\ cellContents' = cellContents]_vars

\* C9: when the slot holds a malformed record at startup, the startup load adopts
\* none of its fields: the player is at the origin, holds nothing, and
\* cellContents is what redrawGrid spawns on the empty store.
C9_MalformedLoadDefaults ==
  (lastEvent.op = "boot" /\ Malformed(storage))
    => /\ playerPos = Origin
       /\ heldToken = JNull
       /\ cellContents = redrawGrid(Origin, EmptyCells, {}).cellContents

\* C10: after a load that read a record (at startup or by btn-load), every key of
\* cellContents, and every key the record gave a number, is in visitedCells.
C10_LoadedKeysVisited ==
  (lastEvent.op \in {"boot", "load"} /\ storage.kind = "object")
    => /\ DOMAIN cellContents \subseteq visitedCells
       /\ \A k \in DOMAIN storage.cells : IsNum(storage.cells[k]) => k \in visitedCells

\* C10 witness: btn-load has just read a record with a cell outside the drawn
\* viewport, which only the reconstruction from the keys puts into visitedCells
C10_Witness ==
  /\ lastEvent.op = "load"
  /\ storage.kind = "object"
  /\ \E k \in DOMAIN storage.cells :
       /\ IsNum(storage.cells[k])
       /\ k \notin Viewport(playerPos)
       /\ k \in visitedCells

-----------------------------------------------------------------------------
(* Properties of visitedCells and of the autosave *)

\* C11: visitedCells only grows: a coordinate that is in visitedCells before a
\* handler (move, interaction, save, load) is in it after the handler.
C11_VisitedPermanence ==
  [][visitedCells \subseteq visitedCells']_vars

\* C12: after every handler that changes playerPos, heldToken or cellContents
\* (a move, a pick-up, merge or swap, the spawning at startup or after a load),
\* the storage write succeeding, the slot holds the snapshot of the values in
\* memory.
C12_PersistenceFreshness ==
  [][(<<playerPos, heldToken, cellContents>>' # <<playerPos, heldToken, cellContents>>)
       => storage' = Stringify(playerPos', heldToken', cellContents')]_vars

-----------------------------------------------------------------------------
(* Properties of the movement controllers *)

\* every controller instance created so far
Instances == retired \cup {ctrl}

\* C13: once the startup code has run, exactly one controller instance is
\* active, it is currentMovementController, and every instance created earlier
\* is stopped; the registrations with the browser are those of that instance.
C13_OneActiveController ==
  phase = "run"
    => /\ ctrl.kind # "none"
       /\ {c \in Instances : c.isActive} = {ctrl}
       /\ IF IsButtons(ctrl)
          THEN listeners = 1 /\ watches = {}
          ELSE listeners = 0 /\ watches = {ctrl.watchId}

\* C13 witness: the current controller is the only active one among at least
\* three instances, after a position error replaced a geolocation controller
C13_Witness ==
  /\ lastEvent.op = "gpserror"
  /\ ctrl.isActive
  /\ Cardinality(Instances) >= 3
  /\ \E c \in retired : c.kind = "geo"
  /\ \E c \in retired : c.kind = "button"

\* the handler falls back to the buttons: a position error, or a start of the
\* geolocation controller (by the toggle or by the URL parameter) without
\* navigator.geolocation
FallsBack ==
  \/ \E w \in watches : PositionError(w)
  \/ ~geoSupported /\ IsButtons(ctrl) /\ ToggleMode
  \/ ~geoSupported /\ Startup("geolocation")

\* C14: a handler that falls back ends with an active button controller as the
\* current one, its listeners on the direction buttons and no watch left, and
\* has told the user; and the mode leaves the buttons for geolocation by the
\* mode toggle only.
C14_ErrorFallback ==
  /\ [][FallsBack
          => /\ IsButtons(ctrl') /\ ctrl'.isActive
             /\ listeners' = 1
             /\ watches' = {}
             /\ lastEvent'.alerts \cap {"geoerr", "nogeo"} # {}]_vars
  /\ [][(IsButtons(ctrl) /\ ~IsButtons(ctrl')) => ToggleMode]_vars

\* C14 witness: the last handler was a position error, after the geolocation
\* controller had moved the player to (0,1); the buttons are in charge again
C14_Witness ==
  /\ lastEvent.op = "gpserror"
  /\ "geoerr" \in lastEvent.alerts
  /\ IsButtons(ctrl) /\ ctrl.isActive
  /\ listeners = 1
  /\ \E c \in retired : c.kind = "geo" /\ ~c.isActive
  /\ playerPos = [i |-> 0, j |-> 1]

\* C15: a direction button moves the player only while the current controller
\* is an active button controller, and a position sample changes playerPos only
\* if it is delivered to the watch of the current, active geolocation
\* controller: no event of a stopped controller moves the player.
C15_Cancellation ==
  [][/\ \A dir \in Dirs :
          Move(dir, TRUE) => IsButtons(ctrl) /\ ctrl.isActive
     /\ \A w \in watches, sample \in Samples :
          (PositionUpdate(w, sample, TRUE) /\ playerPos' # playerPos)
            => ctrl.kind = "geo" /\ ctrl.isActive /\ ctrl.watchId = w]_vars

\* C15 witness: a sample has just moved the player under a geolocation
\* controller started after an earlier geolocation controller was stopped
C15_Witness ==
  /\ lastEvent.op = "gps"
  /\ lastEvent.branch = "accepted"
  /\ playerPos = [i |-> 0, j |-> 1]
  /\ ctrl.kind = "geo" /\ ctrl.isActive
  /\ \E c \in retired : c.kind = "geo" /\ ~c.isActive

\* C16: a click on a direction button runs one listener: N adds 1 to i, S
\* subtracts 1 from i, E adds 1 to j, W subtracts 1 from j, and the other
\* axis keeps its value; after any toggles and fallbacks exactly one instance
\* has its listeners on the buttons in button mode.
C16_ManualStep ==
  /\ [](phase = "run" /\ IsButtons(ctrl) => listeners = 1)
  /\ [][/\ Move("N", TRUE) => playerPos' = [i |-> playerPos.i + 1, j |-> playerPos.j]
        /\ Move("S", TRUE) => playerPos' = [i |-> playerPos.i - 1, j |-> playerPos.j]
        /\ Move("E", TRUE) => playerPos' = [i |-> playerPos.i, j |-> playerPos.j + 1]
        /\ Move("W", TRUE) => playerPos' = [i |-> playerPos.i, j |-> playerPos.j - 1]]_vars

\* C16 witness: a button has just moved the player after the mode was toggled
\* to geolocation and back (two button instances were stopped or replaced)
C16_Witness ==
  /\ lastEvent.op = "move"
  /\ lastEvent.branch = "N"
  /\ playerPos = [i |-> 1, j |-> 0]
  /\ \E c \in retired : c.kind = "button"
  /\ \E c \in retired : c.kind = "geo"

\* the grid coordinate of a sample
SampleGrid(sample) == latLngToGrid(sample[1], sample[2])

\* C17: a sample delivered to the current geolocation controller is accepted
\* exactly when the controller has accepted none yet or the sample's grid
\* coordinate differs from the last accepted one; an accepted sample sets
\* playerPos to its coordinate and is saved; a sample in the cell of the last
\* accepted one changes nothing of the game and of the slot and saves nothing.
C17_JitterSuppression ==
  [][\A w \in watches, sample \in Samples :
       PositionUpdate(w, sample, TRUE)
         => IF ctrl.last.set /\ SampleGrid(sample) = [i |-> ctrl.last.i, j |-> ctrl.last.j]
            THEN /\ UNCHANGED <<game, storage, ctrl>>
                 /\ ~lastEvent'.saved
            ELSE /\ playerPos' = SampleGrid(sample)
                 /\ ctrl'.last = [set |-> TRUE, i |-> playerPos'.i, j |-> playerPos'.j]
                 /\ lastEvent'.saved
                 /\ storage' = Stringify(playerPos', heldToken', cellContents')]_vars

\* C17 witness: the last sample fell into the cell of the last accepted one,
\* at another latitude and longitude, and was dropped
C17_Witness ==
  /\ lastEvent.op = "gps"
  /\ lastEvent.branch = "dropped"
  /\ ctrl.last.set
  /\ lastEvent.key = <<ctrl.last.i, ctrl.last.j>>
  /\ \E a, b \in Samples : a # b /\ SampleGrid(a) = SampleGrid(b)
                            /\ lastEvent.key = <<SampleGrid(a).i, SampleGrid(a).j>>

-----------------------------------------------------------------------------
(* Properties of the page's commands *)

\* the state a New Game leaves: an empty slot, the player at the origin holding
\* nothing, and the viewport around the origin drawn on an empty store and an
\* empty visited set
FreshGame(pos, held, cc, vis, slot) ==
  /\ slot = SlotAbsent
  /\ pos = Origin
  /\ held = JNull
  /\ cc = redrawGrid(Origin, EmptyCells, {}).cellContents
  /\ vis = redrawGrid(Origin, EmptyCells, {}).visitedCells

\* C18: in every state of a running session some handler of the page is a New
\* Game: it clears the slot, resets playerPos, heldToken, cellContents and
\* visitedCells and draws the viewport afresh.
C18_NewGameExists ==
  phase = "run"
    => ENABLED (Handlers /\ FreshGame(playerPos', heldToken', cellContents',
                                      visitedCells', storage'))

\* C19: a save whose storage write fails changes none of playerPos, heldToken,
\* cellContents, visitedCells and leaves the slot as it was; a move or an
\* interaction whose autosave fails has its effect on the game and leaves the
\* slot as it was; and a handler whose write fails leaves the session running
\* with the controller, the button listeners and the watches it had, so that
\* every later command finds the page as after a successful write.
C19_SaveFailureNonFatal ==
  /\ [][Save(FALSE) => UNCHANGED <<game, storage>>]_vars
  /\ [][\A dir \in Dirs :
          Move(dir, FALSE)
            => /\ storage' = storage
               /\ playerPos' = Step(playerPos, dir)
               /\ heldToken' = heldToken]_vars
  /\ [][\A key \in LoadClickCells :
          Click(key, FALSE)
            => /\ storage' = storage
               /\ heldToken' = rectClick(key, playerPos, heldToken, cellContents).heldToken
               /\ cellContents' = rectClick(key, playerPos, heldToken, cellContents).cellContents]_vars
  /\ [][("savefail" \in lastEvent'.alerts)
          => /\ phase' = "run"
             /\ UNCHANGED <<storage, ctrl, retired, listeners, watches>>]_vars

\* C19 witness: btn-save has just failed; the slot still holds an earlier
\* snapshot, which is not the state in memory
C19_Witness ==
  /\ lastEvent.op = "save"
  /\ "savefail" \in lastEvent.alerts
  /\ storage.kind = "object"
  /\ storage # Stringify(playerPos, heldToken, cellContents)

\* C20: a load on an empty slot, by btn-load or at startup, changes none of
\* playerPos, heldToken, cellContents, visitedCells (the startup code then draws
\* the viewport) and raises no alert.
C20_LoadAbsent ==
  /\ [][(Load /\ storage = SlotAbsent)
          => UNCHANGED game /\ lastEvent'.alerts = {}]_vars
  /\ [][(Startup("buttons") /\ storage = SlotAbsent)
          => /\ playerPos' = playerPos
             /\ heldToken' = heldToken
             /\ cellContents' = redrawGrid(playerPos, cellContents, visitedCells).cellContents
             /\ visitedCells' = redrawGrid(playerPos, cellContents, visitedCells).visitedCells
             /\ lastEvent'.alerts = {}]_vars

\* C20 witness: btn-load has just found the slot empty in a session whose
\* viewport holds spawned tokens
C20_Witness ==
  /\ lastEvent.op = "load"
  /\ lastEvent.branch = "absent"
  /\ storage = SlotAbsent
  /\ lastEvent.alerts = {}
  /\ DOMAIN cellContents # {}
  /\ visitedCells = Viewport(playerPos)

-----------------------------------------------------------------------------
(* Further properties of the movement controllers *)

\* the movement state with instance c in the place of the current one
WithCtrl(c) == [Movement EXCEPT !.ctrl = c]

\* C24: start() on an active instance changes nothing (no further listener, no
\* further watch, isActive and watchId as before), for either class and with or
\* without navigator.geolocation; stop() on an inactive instance changes
\* nothing; a second stop() after a stop() changes nothing.
C24_StartStopIdempotent ==
  phase = "run"
    => /\ ctrl.isActive
          => IF IsButtons(ctrl)
             THEN ButtonStart(Movement) = Movement
             ELSE \A supported \in BOOLEAN : GeoStart(Movement, supported) = Movement
       /\ \A c \in retired : ~c.isActive => stop(WithCtrl(c)) = WithCtrl(c)
       /\ stop(stop(Movement)) = stop(Movement)

\* C24 witness: an active geolocation controller holds a watch while stopped
\* button and geolocation instances exist
C24_Witness ==
  /\ ctrl.kind = "geo" /\ ctrl.isActive /\ ctrl.watchId \in watches
  /\ ctrl.last.set
  /\ \E c \in retired : c.kind = "button" /\ ~c.isActive
  /\ \E c \in retired : c.kind = "geo" /\ ~c.isActive

-----------------------------------------------------------------------------
(* Algebraic properties of redrawGrid and of the interactions *)

\* the four neighbours of the player's cell, and the cell itself
Around(pos) ==
  {pos, [pos EXCEPT !.i = @ + 1], [pos EXCEPT !.i = @ - 1],
        [pos EXCEPT !.j = @ + 1], [pos EXCEPT !.j = @ - 1]}

\* C21: redrawGrid called twice in a row, on the store and the visited set of
\* any reachable state and centred on the player's cell or a neighbouring one,
\* gives the cellContents and visitedCells that one call gives.
C21_RedrawIdempotent ==
  \A pos \in Around(playerPos) :
    LET once == redrawGrid(pos, cellContents, visitedCells)
    IN redrawGrid(pos, once.cellContents, once.visitedCells) = once

\* C21 witness: a redraw one cell to the north spawns tokens in cells not seen
\* yet, while a visited cell that the spawn roll fills has been emptied
C21_Witness ==
  /\ phase = "run"
  /\ \E k \in visitedCells : Spawns(k) /\ k \notin DOMAIN cellContents
  /\ LET once == redrawGrid([playerPos EXCEPT !.i = @ + 1], cellContents, visitedCells)
     IN /\ once.visitedCells # visitedCells
        /\ DOMAIN once.cellContents # DOMAIN cellContents

\* the tokens in play: the entries of cellContents, and the held one
TokenCount(held, cc) == Cardinality(DOMAIN cc) + (IF held = JNull THEN 0 ELSE 1)

\* C22: a pick-up and a swap leave the number of tokens in play as it was, a
\* merge lowers it by one, and no click raises it.
C22_TokenCount ==
  [][\A key \in ClickCells :
       Click(key, TRUE)
         => LET before == TokenCount(heldToken, cellContents)
                after == TokenCount(heldToken', cellContents')
            IN /\ lastEvent'.branch \in {"pickup", "swap"} => after = before
               /\ lastEvent'.branch = "merge" => after = before - 1
               /\ after <= before]_vars

\* C22 witness: the last handler merged and three or more tokens are in play
C22_Witness ==
  /\ lastEvent.op = "click"
  /\ lastEvent.branch = "merge"
  /\ IsNum(heldToken) /\ heldToken.v = 2
  /\ TokenCount(heldToken, cellContents) >= 3

\* the value of a token; nothing held counts 0
Value(x) == IF IsNum(x) THEN x.v ELSE 0

RECURSIVE SumOver(_, _)
SumOver(cc, keys) ==
  IF keys = {} THEN 0
  ELSE LET k == CHOOSE x \in keys : TRUE
       IN Value(cc[k]) + SumOver(cc, keys \ {k})

\* heldToken plus all values in cellContents
ValueSum(held, cc) == Value(held) + SumOver(cc, DOMAIN cc)

\* C26: every pick-up, merge and swap leaves the sum of heldToken (0 if none)
\* and of all values in cellContents as it was.
C26_ValueSum ==
  [][\A key \in ClickCells :
       (Click(key, TRUE) /\ lastEvent'.branch \in {"pickup", "merge", "swap"})
         => ValueSum(heldToken', cellContents') = ValueSum(heldToken, cellContents)]_vars

\* C26 witness: the last handler merged 64 with 64 into 128
C26_Witness ==
  /\ lastEvent.op = "click"
  /\ lastEvent.branch = "merge"
  /\ heldToken = JNum(128)
  /\ lastEvent.key \notin DOMAIN cellContents

\* C28: a click on a cell, whatever branch it takes, changes none of playerPos,
\* visitedCells, the current controller and its registrations, and no entry of
\* cellContents other than the one of the clicked cell.
C28_InteractionFrame ==
  [][\A key \in ClickCells :
       Click(key, TRUE)
         => /\ UNCHANGED <<playerPos, visitedCells, ctrl, retired, listeners, watches>>
            /\ \A k \in (DOMAIN cellContents \cup DOMAIN cellContents') \ {key} :
                 /\ k \in DOMAIN cellContents
                 /\ k \in DOMAIN cellContents'
                 /\ cellContents'[k] = cellContents[k]]_vars

\* C28 witness: the last handler picked up the token of a cell while other cells
\* hold tokens
C28_Witness ==
  /\ lastEvent.op = "click"
  /\ lastEvent.branch = "pickup"
  /\ lastEvent.key \notin DOMAIN cellContents
  /\ Cardinality(DOMAIN cellContents) >= 2
  /\ IsNum(heldToken)

-----------------------------------------------------------------------------
(* Properties of the spawning *)

\* C23: whenever a coordinate enters visitedCells, by a button move, a position
\* sample, the startup or a load, in whatever state and mode, it holds a token
\* afterwards exactly if the spawn roll of its key says so, and the token has
\* the value the value roll of its key gives: presence and value are a
\* function of the key alone.
C23_SpawnDeterminism ==
  [][\A k \in visitedCells' \ visitedCells :
       /\ (k \in DOMAIN cellContents') = Spawns(k)
       /\ k \in DOMAIN cellContents' => cellContents'[k] = JNum(SpawnValue(k))]_vars

\* C23 witness: a position sample has just brought cells into view that the
\* startup viewport did not hold, after a load in this session, and such a
\* cell holds a token
C23_Witness ==
  /\ lastEvent.op = "gps"
  /\ lastEvent.branch = "accepted"
  /\ loads >= 1
  /\ playerPos # Origin
  /\ \E k \in DOMAIN cellContents : k \notin Viewport(Origin)

\* i and j of the key differ from the position by at most 5 each
InWindow(k, pos) == Abs(k[1] - pos.i) <= 5 /\ Abs(k[2] - pos.j) <= 5

\* C25: once the startup code has run, every coordinate within 5 of playerPos
\* on both axes is in visitedCells; and a coordinate enters visitedCells only
\* from that window around the new position, spawn-evaluated at that moment
\* (it holds a token afterwards exactly if its spawn roll says so).
C25_ViewportCoverage ==
  /\ [](phase = "run"
          => \A i \in (playerPos.i - 5)..(playerPos.i + 5),
                j \in (playerPos.j - 5)..(playerPos.j + 5) : <<i, j>> \in visitedCells)
  /\ [][\A k \in visitedCells' \ visitedCells :
          /\ InWindow(k, playerPos')
          /\ (k \in DOMAIN cellContents') = (luck(k, 0) < SPAWN_PCT)]_vars

\* C25 witness: btn-load has just read a snapshot taken away from the origin
\* and the window around the loaded position is visited
C25_Witness ==
  /\ lastEvent.op = "load"
  /\ lastEvent.branch = "loaded"
  /\ playerPos # Origin
  /\ <<playerPos.i + 5, playerPos.j + 5>> \in visitedCells
  /\ <<playerPos.i - 5, playerPos.j - 5>> \in visitedCells

RECURSIVE IsPowerOfTwo(_)
IsPowerOfTwo(n) == n = 1 \/ (n > 1 /\ n % 2 = 0 /\ IsPowerOfTwo(n \div 2))

\* C27: in a game started on an empty slot, heldToken is null or a power of two,
\* every entry of cellContents is a number that is a power of two (no entry
\* stands for an empty cell), and a cell that enters visitedCells with a token
\* holds 1 or 2.
C27_PowersOfTwo ==
  /\ [](/\ heldToken = JNull \/ (IsNum(heldToken) /\ IsPowerOfTwo(heldToken.v))
        /\ \A k \in DOMAIN cellContents :
             IsNum(cellContents[k]) /\ IsPowerOfTwo(cellContents[k].v))
  /\ [][\A k \in (visitedCells' \ visitedCells) \cap DOMAIN cellContents' :
          cellContents'[k] \in {JNum(1), JNum(2)}]_vars

\* C27 witness: after a load of its own snapshot the player has merged two 1s
\* into a 2 while spawned 2s lie on the map
C27_Witness ==
  /\ loads >= 1
  /\ lastEvent.op = "click"
  /\ lastEvent.branch = "merge"
  /\ heldToken = JNum(2)
  /\ \E k \in DOMAIN cellContents : cellContents[k] = JNum(2)

====
